---- MODULE Spec2Model ----
(***************************************************************************)
(* XORWOW engine of rocRAND (library/include/rocrand_xorwow.h).            *)
(*                                                                         *)
(* Representation.  An unsigned integer of any width is the set of the     *)
(* positions of its 1 bits: a 32-bit word is a subset of 0..31, a 64-bit   *)
(* distance a subset of 0..63.  All arithmetic is done on these sets with  *)
(* the width of the C type, so no value is ever cut by the model checker's *)
(* own integers.  The five words x[0..4] are kept as one subset of 0..159: *)
(* bit b of x[i] is the element 32*i + b.  A jump matrix is stored by its  *)
(* XORWOW_N * XORWOW_M rows: row i*XORWOW_M + j holds the XORWOW_N words   *)
(* m[i*XORWOW_M*XORWOW_N + j*XORWOW_N + k], k = 0..4, laid out like x.     *)
(***************************************************************************)
EXTENDS Integers, Sequences, FiniteSets, TLC

VARIABLES
    m_state,                          \* xorwow_engine::m_state
    h_xorwow_jump_matrices,           \* table read by discard
    h_xorwow_sequence_jump_matrices,  \* table read by discard_subsequence
    args,       \* history: <<seed, subsequence, offset>> given to rocrand_init,
                \*          <<>> while the engine is the default-constructed one
    hist,       \* history: the calls made on the engine since it was built
    start,      \* history: m_state as its constructor left it
    pre,        \* history: m_state before the last call on the engine
    out,        \* history: the word returned by the last next()
    jstat       \* history: the jumps the last call made, in order

vars == <<m_state, h_xorwow_jump_matrices, h_xorwow_sequence_jump_matrices,
          args, hist, start, pre, out, jstat>>

----------------------------------------------------------------------------
(* Sizes *)

XORWOW_N == 5
XORWOW_M == 32
XORWOW_JUMP_LOG2 == 2
XORWOW_SEQUENCE_JUMP_LOG2 == 67

\* Depth of the precomputed tables in this model.
XORWOW_JUMP_MATRICES == 3

\* Calls made on one engine after its construction.
MaxCalls == 2

\* Iterations after which the model stops following a loop of jump.
LoopFuel == 65

NBITS == XORWOW_N * XORWOW_M

WEYL_INCREMENT == 362437

----------------------------------------------------------------------------
(* Unsigned integers as sets of bit positions *)

\* The w-bit unsigned integer of value n, 0 <= n < 2^31.
ToBits(n, w) == {b \in 0..(w - 1) : b <= 30 /\ (n \div (2^b)) % 2 = 1}

U32(n) == ToBits(n, 32)
U64(n) == ToBits(n, 64)

\* The 32-bit constant whose upper and lower 16 bits are hi and lo.
W32(hi, lo) == ToBits(lo, 16) \cup {b + 16 : b \in ToBits(hi, 16)}

\* The 64-bit value whose upper and lower 32 bits are the words hi and lo.
W64(hi, lo) == lo \cup {b + 32 : b \in hi}

\* a ^ b
XorV(a, b) == (a \ b) \cup (b \ a)

\* (a << k) and (a >> k) on w bits
Shl(a, k, w) == {b + k : b \in {c \in a : c + k < w}}
Shr(a, k) == {b - k : b \in {c \in a : c >= k}}

\* The value of the eight bits o .. o+7 of a, and of the 16 bits of limb k.
Bit(a, i) == IF i \in a THEN 1 ELSE 0
Byte(a, o) ==
    Bit(a, o) + 2 * Bit(a, o + 1) + 4 * Bit(a, o + 2) + 8 * Bit(a, o + 3)
    + 16 * Bit(a, o + 4) + 32 * Bit(a, o + 5) + 64 * Bit(a, o + 6)
    + 128 * Bit(a, o + 7)
Limb(a, k) == Byte(a, 16 * k) + 256 * Byte(a, 16 * k + 8)

\* The bits of the 16-bit number n, placed at limb k.
AtLimb(n, k) == {16 * k + b : b \in ToBits(n, 16)}

\* a & ((1 << l) - 1), as a number (l <= 16)
LowBits(a, l) == Limb(a, 0) % (2^l)

\* static_cast<unsigned int>(a) of a 64-bit a
Trunc32(a) == {b \in a : b < 32}

\* Limbs k .. n-1 of a + b + c, the carry c entering at limb k.
RECURSIVE AddCarry(_, _, _, _, _)
AddCarry(a, b, k, c, n) ==
    IF k = n THEN {}
    ELSE LET s == Limb(a, k) + Limb(b, k) + c
         IN  AtLimb(s % 65536, k) \cup AddCarry(a, b, k + 1, s \div 65536, n)

\* a + b modulo 2^w, w a multiple of 16
AddW(a, b, w) == AddCarry(a, b, 0, 0, w \div 16)
Add32(a, b) == AddW(a, b, 32)
Add64(a, b) == AddW(a, b, 64)

\* a * b modulo 2^w: the sum of a << i over the bits i of b
RECURSIVE MulBy(_, _, _)
MulBy(a, bs, w) ==
    IF bs = {} THEN {}
    ELSE LET i == CHOOSE h \in bs : \A g \in bs : g <= h
             rest == MulBy(a, bs \ {i}, w)
         IN  IF rest = rest THEN AddW(Shl(a, i, w), rest, w) ELSE {}

MulW(a, b, w) == MulBy(a, b, w)
Mul32(a, b) == MulW(a, b, 32)

----------------------------------------------------------------------------
(* The state vector x[0..4] *)

\* x[i]
Word(x, i) == {b \in 0..(XORWOW_M - 1) : (XORWOW_M * i + b) \in x}

\* the word w placed at x[i]
At(w, i) == {XORWOW_M * i + b : b \in w}

XVec(x0, x1, x2, x3, x4) ==
    At(x0, 0) \cup At(x1, 1) \cup At(x2, 2) \cup At(x3, 3) \cup At(x4, 4)

----------------------------------------------------------------------------
(* detail::mul_mat_vec_inplace, detail::mul_mat_mat_inplace *)

\* A function made concrete, so that its values are computed once.
Force(f) == IF f = f THEN f ELSE f

\* v after mul_mat_vec_inplace(m, v).  The loops xor into r the row (i, j)
\* of m for every set bit j of v[i]: bit k of r ends as the parity of the
\* number of those rows that have bit k set.
mul_mat_vec_inplace(m, v) ==
    {k \in 0..(NBITS - 1) : Cardinality({row \in v : k \in m[row]}) % 2 = 1}

\* The columns of m: column k holds the rows of m that have bit k set.
Columns(m) ==
    Force([k \in 0..(NBITS - 1) |-> {row \in 0..(NBITS - 1) : k \in m[row]}])

\* The xor of the rows of a matrix selected by v, the matrix given by its
\* columns: the value mul_mat_vec_inplace leaves in v.
XorRows(cols, v) ==
    {k \in 0..(NBITS - 1) : Cardinality(cols[k] \cap v) % 2 = 1}

\* a after mul_mat_mat_inplace(a, b): mul_mat_vec_inplace(b, a + i * XORWOW_N)
\* for every row i of a.
mul_mat_mat_inplace(a, b) ==
    LET cols == Columns(b)
    IN  Force([i \in 0..(NBITS - 1) |-> XorRows(cols, a[i])])

----------------------------------------------------------------------------
(* xorwow_engine::next *)

\* x after one step
NextX(x) ==
    LET x0 == Word(x, 0)
        x4 == Word(x, 4)
        t  == XorV(x0, Shr(x0, 2))
        n4 == XorV(XorV(x4, Shl(x4, 4, 32)), XorV(t, Shl(t, 1, 32)))
    IN  {b - XORWOW_M : b \in {c \in x : c >= XORWOW_M}} \cup At(n4, 4)

\* m_state after next(), and the word it returns
next(s) ==
    LET x2 == NextX(s.x)
        d2 == Add32(s.d, U32(WEYL_INCREMENT))
    IN  [state |-> [s EXCEPT !.x = x2, !.d = d2],
         ret   |-> Add32(d2, Word(x2, 4))]

----------------------------------------------------------------------------
(* xorwow_engine::jump *)

\* m applied n times to x: the loop "for (i = 0; i < n; i++) mul_mat_vec_inplace"
RECURSIVE ApplyTimes(_, _, _)
ApplyTimes(m, x, n) ==
    IF n = 0 THEN x
    ELSE LET x2 == mul_mat_vec_inplace(m, x)
         IN  IF x2 = x2 THEN ApplyTimes(m, x2, n - 1) ELSE x2

\* A digit width that is the same at every table position.
DigitWidthFixed(mi) == XORWOW_JUMP_LOG2

\* Width l of the digit read at table position mi (line 239).
DigitWidth(mi) == IF mi < XORWOW_JUMP_MATRICES - 1 THEN XORWOW_JUMP_LOG2 ELSE 1

\* while (v > 0 && mi < XORWOW_JUMP_MATRICES): digits is the history of the
\* number of times each table entry was applied.
RECURSIVE TableLoop(_, _, _, _, _)
TableLoop(v, mi, x, jump_matrices, digits) ==
    IF v # {} /\ mi < XORWOW_JUMP_MATRICES
    THEN LET l == DigitWidth(mi)
             n == LowBits(v, l)
             x2 == ApplyTimes(jump_matrices[mi], x, n)
         IN  IF x2 = x2
             THEN TableLoop(Shr(v, l), mi + 1, x2, jump_matrices, Append(digits, n))
             ELSE [v |-> v, mi |-> mi, x |-> x2, digits |-> digits]
    ELSE [v |-> v, mi |-> mi, x |-> x, digits |-> digits]

\* A squaring loop that does not shift v.
SquareStay(v) == v

\* v after "v >>= 1" in the squaring loop
SquareShift(v) == Shr(v, 1)

\* do { square a; copy it to b; apply b if (v & 1); v >>= 1 } while (v > 0)
\* iters counts the iterations done; the model follows at most LoopFuel.
RECURSIVE SquareLoop(_, _, _, _, _)
SquareLoop(a, b, v, x, iters) ==
    LET a2 == mul_mat_mat_inplace(a, b)
        b2 == a2
        x2 == IF 0 \in v THEN mul_mat_vec_inplace(b2, x) ELSE x
        v2 == SquareShift(v)
    IN  IF a2 = a2 /\ x2 = x2 /\ v2 # {} /\ iters + 1 < LoopFuel
        THEN SquareLoop(a2, b2, v2, x2, iters + 1)
        ELSE [x |-> x2, v |-> v2, iters |-> iters + 1]

\* A jump that stops after the table loop and drops the rest.
jump_table_only(v, jump_matrices, x) ==
    LET t == TableLoop(v, 0, x, jump_matrices, <<>>)
    IN  [x |-> t.x, digits |-> t.digits, mi |-> t.mi,
         rest |-> t.v, sq |-> 0, left |-> {}]

\* The host and NVCC build of jump: exponentiation by squaring after the
\* table.  The result records x, the digits the table loop applied, the
\* positions mi it visited, the distance rest it left to the fallback, the
\* iterations sq of the fallback and the distance left at the end.
jump(v, jump_matrices, x) ==
    LET t == TableLoop(v, 0, x, jump_matrices, <<>>)
    IN  IF t.v # {}
        THEN LET last == jump_matrices[XORWOW_JUMP_MATRICES - 1]
                 s == SquareLoop(last, last, t.v, t.x, 0)
             IN  [x |-> s.x, digits |-> t.digits, mi |-> t.mi,
                  rest |-> t.v, sq |-> s.iters, left |-> s.v]
        ELSE [x |-> t.x, digits |-> t.digits, mi |-> t.mi,
              rest |-> t.v, sq |-> 0, left |-> t.v]

\* A linear loop that starts from v, not from v << 1.
LinearLoopUnshifted(last, v, x) == ApplyTimes(last, x, LowBits(v, 16))

\* for (v = v << 1; v > 0; v--) mul_mat_vec_inplace(last, x), for a rest v
\* small enough to count.
LinearLoop(last, v, x) == ApplyTimes(last, x, LowBits(Shl(v, 1, 64), 16))

\* The HCC device build of jump: the last table entry applied one at a time.
jump_linear(v, jump_matrices, x) ==
    LET t == TableLoop(v, 0, x, jump_matrices, <<>>)
    IN  IF t.v # {}
        THEN LinearLoop(jump_matrices[XORWOW_JUMP_MATRICES - 1], t.v, t.x)
        ELSE t.x

----------------------------------------------------------------------------
(* xorwow_engine::discard, discard_subsequence, the constructors *)

\* A d that advances by one increment whatever the distance.
WeylSkipOnce(d, offset) == Add32(d, U32(WEYL_INCREMENT))

\* A d that is set to the product and forgets its value.
WeylSkipSet(d, offset) == Mul32(Trunc32(offset), U32(WEYL_INCREMENT))

\* d after "m_state.d += static_cast<unsigned int>(offset) * 362437"
WeylSkip(d, offset) == Add32(d, Mul32(Trunc32(offset), U32(WEYL_INCREMENT)))

\* The record of one call of jump: the table, the distance, x before, the run.
JumpCall(table, v, x, j) == [table |-> table, v |-> v, from |-> x, run |-> j]

\* A discard that marks the cached float as present.
discard_marking(s, offset, jump_matrices) ==
    LET j == jump(offset, jump_matrices, s.x)
    IN  [state |-> [s EXCEPT !.x = j.x, !.d = WeylSkip(s.d, offset),
                             !.boxmuller_float_state = 1],
         j |-> JumpCall("jump", offset, s.x, j)]

\* discard(offset); jump_matrices is the table the build reads
\* (h_xorwow_jump_matrices on the host, d_xorwow_jump_matrices on a device).
discard(s, offset, jump_matrices) ==
    LET j == jump(offset, jump_matrices, s.x)
    IN  [state |-> [s EXCEPT !.x = j.x, !.d = WeylSkip(s.d, offset)],
         j |-> JumpCall("jump", offset, s.x, j)]

\* A discard_subsequence that advances d as discard does.
discard_subsequence_weyl(s, subsequence, sequence_jump_matrices) ==
    LET j == jump(subsequence, sequence_jump_matrices, s.x)
    IN  [state |-> [s EXCEPT !.x = j.x, !.d = WeylSkip(s.d, subsequence)],
         j |-> JumpCall("sequence_jump", subsequence, s.x, j)]

\* discard_subsequence(subsequence), reading the table of sequence jumps
discard_subsequence(s, subsequence, sequence_jump_matrices) ==
    LET j == jump(subsequence, sequence_jump_matrices, s.x)
    IN  [state |-> [s EXCEPT !.x = j.x],
         j |-> JumpCall("sequence_jump", subsequence, s.x, j)]

\* A seeding that copies the two halves of the seed into x[0] and x[1].
SeededPlain(s, seed) ==
    [s EXCEPT !.x = At(Trunc32(seed), 0) \cup At(Trunc32(Shr(seed, 32)), 1),
              !.d = U32(6615241)]

\* s after the seed is mixed into x and d (lines 133-151); the other fields
\* are not written.
Seeded(s, seed) ==
    LET s0 == XorV(Trunc32(seed), W32(43730, 27465))           \* 0xaad26b49
        s1 == XorV(Trunc32(Shr(seed, 32)), W32(63452, 61405))  \* 0xf7dcefdd
        t0 == Mul32(s0, U32(1099087573))
        t1 == Mul32(s1, W32(39548, 43803))                     \* 2591861531
    IN  [s EXCEPT !.x = XVec(Add32(U32(123456789), t0),
                            XorV(U32(362436069), t0),
                            Add32(U32(521288629), t1),
                            XorV(U32(88675123), t1),
                            Add32(U32(5783321), t0)),
                  !.d = Add32(U32(6615241), Add32(t1, t0))]

\* A constructor tail that leaves the flags as they were.
KeepFlags(s) == s

\* The two validity flags set to 0 (lines 157-158).
ClearFlags(s) ==
    [s EXCEPT !.boxmuller_float_state = 0, !.boxmuller_double_state = 0]

\* xorwow_engine(seed, subsequence, offset), built over the storage s
xorwow_engine(s, seed, subsequence, offset, jump_matrices, sequence_jump_matrices) ==
    LET s1 == Seeded(s, seed)
        s2 == discard_subsequence(s1, subsequence, sequence_jump_matrices)
        s3 == discard(s2.state, offset, jump_matrices)
    IN  [state |-> ClearFlags(s3.state), j |-> <<s2.j, s3.j>>]

\* What the storage of a new engine may hold before its constructor runs;
\* the constructor never writes boxmuller_float and boxmuller_double.
Uninitialized ==
    { [x |-> {}, d |-> {},
       boxmuller_float_state |-> 0, boxmuller_double_state |-> 0,
       boxmuller_float |-> 0, boxmuller_double |-> 0],
      [x |-> 0..(NBITS - 1), d |-> U32(9),
       boxmuller_float_state |-> 1, boxmuller_double_state |-> 2,
       boxmuller_float |-> 3, boxmuller_double |-> 4] }

----------------------------------------------------------------------------
(* The precomputed tables (rocrand_xorwow_precomputed.h) *)

\* The matrix of one step: row r is the image of the unit vector {r}.
StepMatrix == Force([r \in 0..(NBITS - 1) |-> NextX({r})])

\* m squared n times
RECURSIVE RepeatSquare(_, _)
RepeatSquare(m, n) ==
    IF n = 0 THEN m
    ELSE LET sq == mul_mat_mat_inplace(m, m)
         IN  IF sq = sq THEN RepeatSquare(sq, n - 1) ELSE sq

\* <<m, m^4, m^16, ...>>, n entries
RECURSIVE PowerSeq(_, _)
PowerSeq(m, n) ==
    IF n = 1 THEN <<m>>
    ELSE LET m4 == RepeatSquare(m, XORWOW_JUMP_LOG2)
         IN  IF m4 = m4 THEN <<m>> \o PowerSeq(m4, n - 1) ELSE <<>>

\* The table of the powers base^(4^i), i = 0 .. XORWOW_JUMP_MATRICES - 1.
PrecomputedTable(base) ==
    LET q == PowerSeq(base, XORWOW_JUMP_MATRICES)
    IN  Force([i \in 0..(XORWOW_JUMP_MATRICES - 1) |-> q[i + 1]])

----------------------------------------------------------------------------
(* Inputs *)

\* Bits of a distance that the table loop consumes.
TableBits == XORWOW_JUMP_LOG2 * (XORWOW_JUMP_MATRICES - 1) + 1

ROCRAND_XORWOW_DEFAULT_SEED == {}

SEED_ZERO == {}
SEED_ONE == U64(1)
SEED_ONES == 0..63
\* Seeds that make single words of x zero: x[1] and x[3], x[0] and x[2],
\* x[3] and x[4].
SEED_X1X3 == W64(W32(13968, 3604), W32(64961, 2456))    \* 0x36900e14fdc10998
SEED_X0X2 == W64(W32(5130, 49484), W32(54279, 57846))   \* 0x140ac14cd407e1f6
SEED_X3X4 == W64(W32(13968, 3604), W32(23361, 56706))   \* 0x36900e145b41dd82

\* A distance that does not fit 32 bits: 2^32 + 3.
HUGE == {32} \cup U64(3)

\* A distance that uses the one-bit last digit and reaches the fallback with
\* the rest binary 11.
OVER == {TableBits - 1, TableBits, TableBits + 1} \cup U64(6)

\* Arguments <<seed, subsequence, offset>> of rocrand_init.
CtorArgs ==
    { <<SEED_ZERO, {}, {}>>,
      <<SEED_ONE, {}, {}>>,
      <<SEED_ONES, {}, {}>>,
      <<SEED_X1X3, {}, {}>>,
      <<SEED_X0X2, {}, {}>>,
      <<SEED_X3X4, {}, {}>>,
      <<SEED_ZERO, U64(1), {}>>,
      <<SEED_ONE, U64(6), U64(7)>>,
      <<SEED_ONES, {TableBits} \cup U64(1), U64(2)>>,
      <<SEED_ONE, {}, HUGE>> }

\* Distances the table loop consumes: none, one digit, two digits, the
\* one-bit last digit.
SmallOffsets == { {}, U64(1), U64(2), U64(7), {TableBits - 1} \cup U64(4) }

\* The distances tried by a call: every kind by the first call, a short
\* one by the later calls.
Offsets(h) == IF h = <<>> THEN SmallOffsets \cup {OVER} ELSE {U64(3)}

Subsequences(h) == IF h = <<>> THEN { {}, U64(1), U64(6) } ELSE {U64(1)}

----------------------------------------------------------------------------
(* The engine and its callers *)

\* rocrand_state_xorwow state: the default constructor has run, which is
\* xorwow_engine(ROCRAND_XORWOW_DEFAULT_SEED, 0, 0); the tables are the
\* precomputed ones.
Init ==
    /\ h_xorwow_jump_matrices = PrecomputedTable(StepMatrix)
    /\ h_xorwow_sequence_jump_matrices =
           PrecomputedTable(RepeatSquare(StepMatrix, XORWOW_SEQUENCE_JUMP_LOG2))
    /\ \E u \in Uninitialized :
          \E e \in {xorwow_engine(u, ROCRAND_XORWOW_DEFAULT_SEED, {}, {},
                                  h_xorwow_jump_matrices,
                                  h_xorwow_sequence_jump_matrices)} :
              /\ m_state = e.state
              /\ start = e.state
              /\ pre = e.state
              /\ jstat = e.j
    /\ args = <<>>
    /\ hist = <<>>
    /\ out = {}

\* rocrand_init: *state = rocrand_state_xorwow(seed, subsequence, offset).
\* A new engine is built in storage of its own and copied over *state,
\* the fields its constructor never wrote included.
rocrand_init ==
    /\ args = <<>>
    /\ hist = <<>>
    /\ \E a \in CtorArgs, u \in Uninitialized :
          \E e \in {xorwow_engine(u, a[1], a[2], a[3],
                                  h_xorwow_jump_matrices,
                                  h_xorwow_sequence_jump_matrices)} :
              /\ m_state' = e.state
              /\ start' = e.state
              /\ pre' = e.state
              /\ jstat' = e.j
              /\ args' = a
    /\ UNCHANGED <<h_xorwow_jump_matrices, h_xorwow_sequence_jump_matrices,
                   hist, out>>

\* rocrand: state->next()
rocrand ==
    /\ Len(hist) < MaxCalls
    /\ \E r \in {next(m_state)} :
           /\ m_state' = r.state
           /\ out' = r.ret
    /\ pre' = m_state
    /\ jstat' = <<>>
    /\ hist' = Append(hist, [op |-> "next", n |-> {}])
    /\ UNCHANGED <<h_xorwow_jump_matrices, h_xorwow_sequence_jump_matrices,
                   args, start>>

\* skipahead: state->discard(offset)
skipahead ==
    /\ Len(hist) < MaxCalls
    /\ \E offset \in Offsets(hist) :
          \E r \in {discard(m_state, offset, h_xorwow_jump_matrices)} :
              /\ m_state' = r.state
              /\ jstat' = <<r.j>>
              /\ hist' = Append(hist, [op |-> "discard", n |-> offset])
    /\ pre' = m_state
    /\ UNCHANGED <<h_xorwow_jump_matrices, h_xorwow_sequence_jump_matrices,
                   args, start, out>>

\* skipahead_subsequence: state->discard_subsequence(subsequence)
skipahead_subsequence ==
    /\ Len(hist) < MaxCalls
    /\ \E subsequence \in Subsequences(hist) :
          \E r \in {discard_subsequence(m_state, subsequence,
                                        h_xorwow_sequence_jump_matrices)} :
              /\ m_state' = r.state
              /\ jstat' = <<r.j>>
              /\ hist' = Append(hist, [op |-> "discard_subsequence",
                                       n |-> subsequence])
    /\ pre' = m_state
    /\ UNCHANGED <<h_xorwow_jump_matrices, h_xorwow_sequence_jump_matrices,
                   args, start, out>>

Next == rocrand \/ skipahead \/ skipahead_subsequence \/ rocrand_init

Spec == Init /\ [][Next]_vars

----------------------------------------------------------------------------
(* References the claims are stated against *)

\* The last call made.
Last == hist[Len(hist)]

\* The engine has been built by rocrand_init.
Constructed == args # <<>>

\* The seed the engine was built with.
SeedOf(a) == IF a = <<>> THEN ROCRAND_XORWOW_DEFAULT_SEED ELSE a[1]

\* The state after 4, 16 and n calls of next(); n is a number.
Next4(s) == next(next(next(next(s).state).state).state).state
Next16(s) == Next4(Next4(Next4(Next4(s))))
RECURSIVE NextTimes(_, _)
NextTimes(s, n) ==
    IF n = 0 THEN s
    ELSE IF n >= 16
         THEN LET s2 == Next16(s)
              IN  IF s2 = s2 THEN NextTimes(s2, n - 16) ELSE s2
         ELSE LET s2 == next(s).state
              IN  IF s2 = s2 THEN NextTimes(s2, n - 1) ELSE s2

\* The distance v is a number the model can count to, and that number.
Countable(v) == \A b \in v : b < 15
Value(v) == Limb(v, 0)

\* The 32-bit d that n steps of 362437 lead to from d, n of any width w,
\* the product taken on all w bits before it is reduced modulo 2^32.
WeylAfter(d, n, w) ==
    Add32(d, {b \in MulW(n, ToBits(WEYL_INCREMENT, w), w) : b < XORWOW_M})

\* The four fields of the cached Gaussian values.
BoxMuller(s) ==
    <<s.boxmuller_float_state, s.boxmuller_double_state,
      s.boxmuller_float, s.boxmuller_double>>

\* The i-th digit of w bits of the distance v.
Digit(v, i, w) == LowBits(Shr(v, i * w), w)

\* The table a recorded call of jump read.
TableOf(j, jump_matrices, sequence_jump_matrices) ==
    IF j.table = "jump" THEN jump_matrices ELSE sequence_jump_matrices

\* The times the table loop of the recorded call j applied table[i - 1].
Applied(j, i) == IF i <= Len(j.run.digits) THEN j.run.digits[i] ELSE 0

----------------------------------------------------------------------------
(* Step and skip *)

\* The state s and the word out are what the last of n + 1 calls of next()
\* from the state before leaves and returns.
StepSkipEquivalent(before, n, s, ret) ==
    \E r \in {next(NextTimes(before, Value(n)))} : s = r.state /\ ret = r.ret

\* C1: discard(n) followed by one next() leaves the state and returns the
\* word that n + 1 calls of next() leave and return, for distances the table
\* consumes, distances that use its one-bit last digit and distances that
\* reach the squaring fallback; checked on the runs that call discard(n) and
\* then next() on a new engine.
C1_StepSkipEquivalence ==
    (Len(hist) = 2 /\ hist[1].op = "discard" /\ hist[2].op = "next"
                   /\ Countable(hist[1].n))
        => StepSkipEquivalent(start, hist[1].n, m_state, out)

\* next() after a discard whose distance used the last digit and reached
\* the fallback.
C1_Witness ==
    /\ Len(hist) = 2
    /\ hist[1].op = "discard"
    /\ hist[1].n = OVER
    /\ hist[2].op = "next"
    /\ m_state.x # start.x
    /\ out # {}

----------------------------------------------------------------------------
(* The constructor as a composition *)

\* The engine built with (seed, 0, 0), then discard_subsequence, then discard.
CtorComposed(s, seed, subsequence, offset, jump_matrices, sequence_jump_matrices) ==
    LET e == xorwow_engine(s, seed, {}, {}, jump_matrices, sequence_jump_matrices)
        e1 == discard_subsequence(e.state, subsequence, sequence_jump_matrices)
        e2 == discard(e1.state, offset, jump_matrices)
    IN  e2.state

\* The storage u is the one the engine s was built in: it holds the cached
\* values of s, which no constructor writes.
StorageOf(u, s) ==
    /\ u.boxmuller_float = s.boxmuller_float
    /\ u.boxmuller_double = s.boxmuller_double

\* C2: the state rocrand_init builds from (seed, subsequence, offset) equals,
\* in every field, the state built in the same storage from (seed, 0, 0)
\* followed by discard_subsequence(subsequence) and discard(offset); with
\* both 0 it is the seeded state with its flags cleared.
C2_CtorComposition ==
    (Constructed /\ hist = <<>>) =>
        \A u \in Uninitialized :
            StorageOf(u, m_state) =>
                /\ m_state = CtorComposed(u, args[1], args[2], args[3],
                                          h_xorwow_jump_matrices,
                                          h_xorwow_sequence_jump_matrices)
                /\ (args[2] = {} /\ args[3] = {})
                       => m_state = ClearFlags(Seeded(u, args[1]))

\* An engine just built with a subsequence and an offset in storage whose
\* flags were set.
C2_Witness ==
    /\ Constructed
    /\ hist = <<>>
    /\ args[2] # {}
    /\ args[3] # {}
    /\ \E u \in Uninitialized :
           StorageOf(u, m_state) /\ u.boxmuller_float_state = 1
    /\ m_state.boxmuller_float_state = 0

----------------------------------------------------------------------------
(* The Weyl counter d *)

\* C3: after discard(n), d = (d before + n * 362437) mod 2^32, the product
\* taken with all 64 bits of n, and this is the d that n calls of next()
\* reach whatever x is (x = 0 here); checked on every discard call and on
\* the discard the constructor makes, whose distance does not fit 32 bits.
C3_WeylLinear ==
    /\ (hist # <<>> /\ Last.op = "discard") =>
           /\ m_state.d = WeylAfter(pre.d, Last.n, 64)
           /\ Countable(Last.n) =>
                  m_state.d = NextTimes([pre EXCEPT !.x = {}], Value(Last.n)).d
    /\ (Constructed /\ hist = <<>>) =>
           m_state.d = WeylAfter(Seeded(m_state, args[1]).d, args[3], 64)

\* An engine built with an offset that has a bit above bit 31.
C3_Witness ==
    /\ Constructed
    /\ hist = <<>>
    /\ 32 \in args[3]
    /\ Trunc32(args[3]) # {}
    /\ m_state.d # Seeded(m_state, args[1]).d

\* C4: discard_subsequence(n) leaves d unchanged, and that is the d which
\* n * 2^67 steps reach: n * 2^67 * 362437 is 0 modulo 2^32.
C4_SubsequenceWeyl ==
    (hist # <<>> /\ Last.op = "discard_subsequence") =>
        /\ m_state.d = pre.d
        /\ m_state.d = WeylAfter(pre.d,
                                 Shl(Last.n, XORWOW_SEQUENCE_JUMP_LOG2, 160), 160)

\* A discard_subsequence over a distance that moved x.
C4_Witness ==
    /\ hist # <<>>
    /\ Last.op = "discard_subsequence"
    /\ Last.n = U64(6)
    /\ m_state.x # pre.x
    /\ m_state.d # {}

----------------------------------------------------------------------------
(* The cached Gaussian values *)

\* C5: after construction both validity flags are 0, and no call of next(),
\* discard or discard_subsequence changes a flag or a cached value.
C5_BoxMullerFrame ==
    /\ hist = <<>> =>
           (m_state.boxmuller_float_state = 0 /\ m_state.boxmuller_double_state = 0)
    /\ BoxMuller(m_state) = BoxMuller(pre)
    /\ BoxMuller(m_state) = BoxMuller(start)

\* Two calls made on an engine built over storage that held other values.
C5_Witness ==
    /\ Len(hist) = 2
    /\ hist[1].op = "discard"
    /\ hist[2].op = "discard_subsequence"
    /\ m_state.boxmuller_float = 3
    /\ m_state.boxmuller_double = 4
    /\ m_state.x # start.x

----------------------------------------------------------------------------
(* The shift register is never zero *)

\* C6: the x the seed mixing produces is not all-zero (it is the x of an
\* engine built with no skip), and x is not all-zero in any state reached by
\* next(), discard and discard_subsequence.
C6_NonZero ==
    /\ Seeded(start, SeedOf(args)).x # {}
    /\ (args = <<>> \/ (args[2] = {} /\ args[3] = {}))
           => start.x = Seeded(start, SeedOf(args)).x
    /\ start.x # {}
    /\ m_state.x # {}

\* Two calls after a seed that makes x[1] and x[3] zero.
C6_Witness ==
    /\ Constructed
    /\ args[1] = SEED_X1X3
    /\ Word(start.x, 1) = {}
    /\ Word(start.x, 3) = {}
    /\ Len(hist) = 2

----------------------------------------------------------------------------
(* jump *)

\* The recorded call j ended within its bounds.
JumpBounded(j) ==
    /\ Len(j.run.digits) <= XORWOW_JUMP_MATRICES
    /\ j.run.mi <= XORWOW_JUMP_MATRICES
    /\ j.run.sq <= 64
    /\ j.run.left = {}

\* C7: every jump ends: the table loop makes at most XORWOW_JUMP_MATRICES
\* iterations, the squaring fallback at most 64, and the distance left is 0.
C7_JumpTerminates == \A i \in DOMAIN jstat : JumpBounded(jstat[i])

\* A jump whose fallback made more than 20 iterations.
C7_Witness ==
    \E i \in DOMAIN jstat :
        /\ jstat[i].run.sq > 20
        /\ jstat[i].run.mi = XORWOW_JUMP_MATRICES

\* The digits the recorded call j applied: XORWOW_JUMP_LOG2 bits at the
\* positions before the last one, the next single bit at the last one.
DigitsAsRead(j) ==
    \A i \in 1..XORWOW_JUMP_MATRICES :
        Applied(j, i) =
            IF i < XORWOW_JUMP_MATRICES
            THEN Digit(j.v, i - 1, XORWOW_JUMP_LOG2)
            ELSE Bit(j.v, XORWOW_JUMP_LOG2 * (XORWOW_JUMP_MATRICES - 1))

\* The digits of the recorded call j, all of XORWOW_JUMP_LOG2 bits.
DigitsFixedWidth(j) ==
    \A i \in 1..XORWOW_JUMP_MATRICES :
        Applied(j, i) = Digit(j.v, i - 1, XORWOW_JUMP_LOG2)

\* C8: table[i] is applied as many times as the i-th digit of
\* XORWOW_JUMP_LOG2 bits of the distance at every position i before the last
\* one; at the last position, XORWOW_JUMP_MATRICES - 1, it is applied as
\* many times as the single bit XORWOW_JUMP_LOG2 * (XORWOW_JUMP_MATRICES - 1)
\* of the distance.
C8_DigitsAsRead == \A i \in DOMAIN jstat : DigitsAsRead(jstat[i])

\* A jump that applied the last table entry once, over a distance whose
\* next bit is set as well.
C8_Witness ==
    \E i \in DOMAIN jstat :
        /\ Len(jstat[i].run.digits) = XORWOW_JUMP_MATRICES
        /\ jstat[i].run.digits[XORWOW_JUMP_MATRICES] = 1
        /\ TableBits \in jstat[i].v

\* C8 as stated: at every table position, the last one included, table[i]
\* is applied as many times as the i-th digit of XORWOW_JUMP_LOG2 bits.
C8_AsStated == \A i \in DOMAIN jstat : DigitsFixedWidth(jstat[i])

\* The linear fallback reaches the x the recorded call j reached.
LinearAgrees(j, jump_matrices) == jump_linear(j.v, jump_matrices, j.from) = j.run.x

\* C9: for a distance that leaves a rest after the table loop, applying the
\* last table entry 2 * rest times gives the x the squaring fallback gives
\* (checked for the rests the model can count to), and rest << 1 does not
\* lose a bit in 64 bits.
C9_FallbacksAgree ==
    \A i \in DOMAIN jstat :
        /\ 63 \notin jstat[i].run.rest
        /\ Shr(Shl(jstat[i].run.rest, 1, 64), 1) = jstat[i].run.rest
        /\ (jstat[i].run.rest # {} /\ Countable(jstat[i].run.rest))
               => LinearAgrees(jstat[i],
                               TableOf(jstat[i], h_xorwow_jump_matrices,
                                       h_xorwow_sequence_jump_matrices))

\* A jump whose rest was binary 11: two squarings, six linear applications.
C9_Witness ==
    \E i \in DOMAIN jstat :
        /\ jstat[i].run.rest = {0, 1}
        /\ jstat[i].run.sq = 2
        /\ jstat[i].run.x # jstat[i].from

----------------------------------------------------------------------------
(* Skips compose *)

\* discard_subsequence(subsequence) followed by discard(offset), from s
SubsequenceThenOffset(s, subsequence, offset, jump_matrices, sequence_jump_matrices) ==
    LET e1 == discard_subsequence(s, subsequence, sequence_jump_matrices)
        e2 == discard(e1.state, offset, jump_matrices)
    IN  e2.state

\* C10: discard(a) followed by discard(b) leaves the state discard(a + b)
\* leaves, and discard(a) followed by discard_subsequence(s) leaves the state
\* discard_subsequence(s) followed by discard(a) leaves; every action leaves
\* the two tables unchanged.
C10_SkipsCompose ==
    /\ (Len(hist) = 2 /\ hist[1].op = "discard" /\ hist[2].op = "discard")
           => m_state = discard(start, Add64(hist[1].n, hist[2].n),
                                h_xorwow_jump_matrices).state
    /\ (Len(hist) = 2 /\ hist[1].op = "discard"
                      /\ hist[2].op = "discard_subsequence")
           => m_state = SubsequenceThenOffset(start, hist[2].n, hist[1].n,
                                              h_xorwow_jump_matrices,
                                              h_xorwow_sequence_jump_matrices)

\* Two discards whose distances sum to one that reaches the fallback.
C10_Witness ==
    /\ Len(hist) = 2
    /\ hist[1].op = "discard"
    /\ hist[2].op = "discard"
    /\ hist[1].n = OVER
    /\ hist[2].n = U64(3)
    /\ m_state.x # pre.x

====
